---------------------------- MODULE Spec2Model ----------------------------
(***************************************************************************)
(* Model of pytorch_toolkit/formula_recognition/im2latex/data/utils.py:    *)
(* the collator (collate_fn), the tokenizer bridge (formulas2tensor), the  *)
(* pipeline builder (create_list_of_transforms) and the two geometric      *)
(* normalizers (BatchResizePad, BatchCropPad).                             *)
(*                                                                         *)
(* Every function of the file is a pure, single-threaded call.  Each has   *)
(* its own specification: Init draws the call's arguments from bounded     *)
(* sets, and one action runs the whole call and records its locals and its *)
(* result (or the exception it raises).                                    *)
(*                                                                         *)
(* Strings are sequences of one-character strings; a token is such a       *)
(* sequence too.  Matrices are sequences of rows.                          *)
(***************************************************************************)
EXTENDS Integers, Sequences, FiniteSets, TLC

VARIABLES
    call,             \* the function this behaviour calls
    pc,               \* "start", then "done" (returned) or "raised"
    exc,              \* the exception a raising call ends with
    \* collate_fn
    batch,            \* argument: the raw batch, a sequence of records
    batch_transform,  \* argument: None, or the Compose of a list of units
    batch_f,          \* local `batch` after the shape filter
    batch_s,          \* local `batch` after the sort
    img_names,        \* returned names
    imgs,             \* returned image batch (one row per image)
    formulas_tensor,  \* local: the tokenized matrix
    tgt4training,     \* returned train targets
    tgt4cal_loss,     \* returned loss targets
    \* formulas2tensor
    formulas,         \* argument: the list of formula strings
    tensors,          \* returned matrix
    \* create_list_of_transforms
    transforms_list,  \* argument: the configuration list, or None
    ovino_ir,         \* argument: the skip flag
    transforms,       \* the units of the returned Compose
    \* BatchResizePad.__call__ / BatchCropPad.__call__
    norm_imgs,        \* argument: an image or a list of images
    target_shape,     \* self.target_shape
    res               \* returned list

collateVars == <<batch, batch_transform, batch_f, batch_s, img_names, imgs,
                 formulas_tensor, tgt4training, tgt4cal_loss>>
f2tVars     == <<formulas, tensors>>
builderVars == <<transforms_list, ovino_ir, transforms>>
normVars    == <<norm_imgs, target_shape, res>>
vars        == <<call, pc, exc, collateVars, f2tVars, builderVars, normVars>>

\* Value of a variable that the running call does not use or has not set.
None == "None"

---------------------------------------------------------------------------
(* Bounds of the model *)

\* longest raw batch handed to collate_fn / longest list for formulas2tensor
MaxBatch == 2
\* longest formula string handed to formulas2tensor, in characters
MaxStrLen == 3
\* longest formula string of a record handed to collate_fn, in characters
MaxFormulaLen == 1

\* characters of a formula string: a symbol character and whitespace
Alphabet == {"a", " "}
\* raw image shapes (height, width, channels) of the records of a batch
Shapes == {<<1, 1, 3>>, <<1, 2, 3>>}

Strings == UNION {[1..k -> Alphabet] : k \in 0..MaxStrLen}
RecordFormulas == UNION {[1..k -> Alphabet] : k \in 0..MaxFormulaLen}

---------------------------------------------------------------------------
(* Sentinel ids of the vocabulary component (data/vocab.py) *)

START_TOKEN == 0
PAD_TOKEN == 1
END_TOKEN == 2
UNK_TOKEN == 3

\* the vocabulary mapping passed as sign2id: token -> id
sign2id == (<<"a">> :> 4)

---------------------------------------------------------------------------
(* str.split(): the maximal runs of non-whitespace characters *)

RECURSIVE SplitFrom(_, _, _)
SplitFrom(s, cur, acc) ==
    IF s = <<>>
    THEN IF cur = <<>> THEN acc ELSE Append(acc, cur)
    ELSE IF Head(s) = " "
         THEN SplitFrom(Tail(s), <<>>, IF cur = <<>> THEN acc ELSE Append(acc, cur))
         ELSE SplitFrom(Tail(s), Append(cur, Head(s)), acc)

Split(s) == SplitFrom(s, <<>>, <<>>)

\* dict.get(key, default)
Get(d, key, default) == IF key \in DOMAIN d THEN d[key] ELSE default

---------------------------------------------------------------------------
(* formulas2tensor *)

\* the outcome of a call that can raise: a value, or the exception
Ok(v) == [raised |-> FALSE, value |-> v]
Raise(e) == [raised |-> TRUE, error |-> e]

IndexError == Raise("IndexError")

\* Mutant: the width is the longest formula's token count, not the first's.
formulas2tensor_maxwidth(fs, vocab) ==
    IF fs = <<>> THEN IndexError
    ELSE LET toks == [i \in 1..Len(fs) |-> Split(fs[i])]
             lens == {Len(toks[i]) : i \in 1..Len(fs)}
             max_len == CHOOSE m \in lens : \A l \in lens : l <= m
         IN Ok([i \in 1..Len(fs) |->
                [j \in 1..max_len |->
                    IF j <= Len(toks[i]) THEN Get(vocab, toks[i][j], UNK_TOKEN)
                    ELSE PAD_TOKEN]])

\* The matrix of ids, or IndexError: formulas[0] of an empty list, or the
\* write tensors[i][j] with j beyond the width taken from the first formula.
formulas2tensor(fs, vocab) ==
    IF fs = <<>> THEN IndexError
    ELSE LET toks == [i \in 1..Len(fs) |-> Split(fs[i])]
             max_len == Len(toks[1])
         IN IF \E i \in 1..Len(fs) : Len(toks[i]) > max_len
            THEN IndexError
            ELSE Ok([i \in 1..Len(fs) |->
                    [j \in 1..max_len |->
                        IF j <= Len(toks[i]) THEN Get(vocab, toks[i][j], UNK_TOKEN)
                        ELSE PAD_TOKEN]])

---------------------------------------------------------------------------
(* collate_fn: the records and the steps on them *)

\* A record of a raw batch.  Its image is a pixel array, followed through the
\* call by its shape and its kind (ndarray or tensor).  The pixel data and the
\* name of the k-th record are tagged k, so that every output row can be
\* traced to its record.
Record(k, shape, formula) ==
    [img |-> [shape |-> shape, kind |-> "ndarray", data |-> k],
     formula |-> formula,
     img_name |-> k]

\* Mutant: no record is filtered out.
FilterShape_keepall(b) == b

\* Mutant: the reference shape is the last record's, not the first's.
FilterShape_last(b) ==
    LET size == b[Len(b)].img.shape
    IN SelectSeq(b, LAMBDA r : r.img.shape = size)

\* lines 398-400: the records whose image shape is the first record's
FilterShape(b) ==
    LET size == b[1].img.shape
    IN SelectSeq(b, LAMBDA r : r.img.shape = size)

\* the sort key: the number of whitespace-separated tokens of the formula
SortKey(r) == Len(Split(r.formula))

\* x inserted behind every element whose key is at least x's key
RECURSIVE InsertDesc(_, _)
InsertDesc(s, x) ==
    IF s = <<>> THEN <<x>>
    ELSE IF SortKey(Head(s)) >= SortKey(x)
         THEN <<Head(s)>> \o InsertDesc(Tail(s), x)
         ELSE <<x>> \o s

\* x inserted behind every element whose key is at most x's key
RECURSIVE InsertAsc(_, _)
InsertAsc(s, x) ==
    IF s = <<>> THEN <<x>>
    ELSE IF SortKey(Head(s)) <= SortKey(x)
         THEN <<Head(s)>> \o InsertAsc(Tail(s), x)
         ELSE <<x>> \o s

RECURSIVE SortAsc(_)
SortAsc(b) ==
    IF b = <<>> THEN <<>>
    ELSE InsertAsc(SortAsc(SubSeq(b, 1, Len(b) - 1)), b[Len(b)])

Reverse(s) == [i \in 1..Len(s) |-> s[Len(s) + 1 - i]]

\* Mutant: the sort without reverse=True.
SortBatch_ascending(b) == SortAsc(b)

\* Mutant: an ascending stable sort followed by a reversal, which turns the
\* order of tied records around.
SortBatch_reversed(b) == Reverse(SortAsc(b))

\* lines 402-403: list.sort(key=..., reverse=True), a stable sort: records
\* with equal keys keep their order.
RECURSIVE SortBatch(_)
SortBatch(b) ==
    IF b = <<>> THEN <<>>
    ELSE InsertDesc(SortBatch(SubSeq(b, 1, Len(b) - 1)), b[Len(b)])

\* lines 415-417: torch.cat([START column, formulas_tensor], dim=1)
Tgt4Training(ft) == [i \in 1..Len(ft) |-> <<START_TOKEN>> \o ft[i]]

\* Mutant: the appended column holds PAD instead of END.
Tgt4CalLoss_pad(ft) == [i \in 1..Len(ft) |-> ft[i] \o <<PAD_TOKEN>>]

\* lines 418-419: torch.cat([formulas_tensor, END column], dim=1)
Tgt4CalLoss(ft) == [i \in 1..Len(ft) |-> ft[i] \o <<END_TOKEN>>]

\* line 407: the names of the sorted records
ImgNames(b) == [i \in 1..Len(b) |-> b[i].img_name]

InitOthers(f) ==
    /\ call = f
    /\ pc = "start"
    /\ exc = None
    /\ IF f = "collate_fn" THEN TRUE ELSE batch = None /\ batch_transform = None
    \* the locals of collate_fn, lists or matrices once assigned
    /\ batch_f = <<>> /\ batch_s = <<>> /\ img_names = <<>> /\ imgs = <<>>
    /\ formulas_tensor = <<>> /\ tgt4training = <<>> /\ tgt4cal_loss = <<>>
    /\ IF f = "formulas2tensor" THEN TRUE ELSE formulas = None
    /\ tensors = None
    /\ IF f = "create_list_of_transforms" THEN TRUE
       ELSE transforms_list = None /\ ovino_ir = None
    /\ transforms = None
    /\ IF f \in {"BatchResizePad", "BatchCropPad"} THEN TRUE
       ELSE norm_imgs = None /\ target_shape = None
    /\ res = None

---------------------------------------------------------------------------
(* formulas2tensor called on its own *)

InitFormulas2Tensor ==
    /\ \E n \in 0..MaxBatch : formulas \in [1..n -> Strings]
    /\ InitOthers("formulas2tensor")

\* formulas2tensor(formulas, sign2id), lines 461-470
Formulas2Tensor ==
    /\ call = "formulas2tensor" /\ pc = "start"
    /\ LET t == formulas2tensor(formulas, sign2id)
       IN IF t.raised
          THEN pc' = "raised" /\ exc' = t.error /\ UNCHANGED tensors
          ELSE pc' = "done" /\ tensors' = t.value /\ UNCHANGED exc
    /\ UNCHANGED <<call, formulas, collateVars, builderVars, normVars>>

SpecFormulas2Tensor == InitFormulas2Tensor /\ [][Formulas2Tensor]_vars

---------------------------------------------------------------------------
(* create_list_of_transforms *)

\* longest configuration list
MaxConfigLen == 2

\* names whose branch passes parameters of the entry to the constructor
ParamNames ==
    {"BatchResizePad", "BatchCropPad", "BatchTransformBin", "BatchTransformPad",
     "BatchTransformRandomNoise", "BatchTransformRescale", "BatchTransformRotate",
     "BatchTransfromAdaptiveBin", "TransformResize", "BatchTransformShift",
     "TransformRandomBolding"}
\* names whose branch constructs the unit with its defaults
DefaultNames == {"BatchTransformBlur", "TransformDilation", "TransformErosion"}
\* names no branch of the chain matches
UnknownNames == {"BatchToTensor", "BatchResizePadd"}

\* the parameter part of an entry: the keys of the configuration format whose
\* value decides what a unit does to the shape of an image or whether it
\* raises (scales are counted in halves; the noise intensity is a number with
\* its Python type); the constructor of the unit takes what its branch passes on
ParamValues ==
    {[target_shape |-> <<1, 1>>, pads |-> <<1, 1, 1, 1>>, shifts |-> <<1, 1>>,
      scales |-> <<2, 2>>, angle |-> 0, block_size |-> 3, threshold |-> 1,
      intensivity |-> [dtype |-> "int", value |-> 1]],
     [target_shape |-> <<2, 2>>, pads |-> <<2, 1, 1, 1>>, shifts |-> <<0, 1>>,
      scales |-> <<1, 3>>, angle |-> 0, block_size |-> 2, threshold |-> 1,
      intensivity |-> [dtype |-> "float", value |-> 1]],
     [target_shape |-> <<1, 2>>, pads |-> <<0, 1, 1, 1>>, shifts |-> <<1, 1>>,
      scales |-> <<1, 1>>, angle |-> 0, block_size |-> 3, threshold |-> 1,
      intensivity |-> [dtype |-> "int", value |-> 300]]}

ConfigEntries ==
    [name : ParamNames \cup DefaultNames \cup UnknownNames, params : ParamValues]

BatchToTensorUnit == [cls |-> "BatchToTensor", args |-> [none |-> TRUE]]

\* Mutant: an entry with an unknown name is kept as a unit.
MakeUnit_lenient(transform) ==
    IF transform.name \in DefaultNames
    THEN <<[cls |-> transform.name, args |-> [defaults |-> TRUE]]>>
    ELSE <<[cls |-> transform.name, args |-> transform.params]>>

\* lines 427-455: the if/elif chain on transform['name']; no else branch
MakeUnit(transform) ==
    IF transform.name \in ParamNames
    THEN <<[cls |-> transform.name, args |-> transform.params]>>
    ELSE IF transform.name \in DefaultNames
         THEN <<[cls |-> transform.name, args |-> [defaults |-> TRUE]]>>
         ELSE <<>>

\* lines 426-455: the loop over the configuration list
RECURSIVE BuildUnits(_)
BuildUnits(es) ==
    IF es = <<>> THEN <<>>
    ELSE BuildUnits(SubSeq(es, 1, Len(es) - 1)) \o MakeUnit(es[Len(es)])

\* lines 456-457
AppendToTensor(ts, flag) == IF ~flag THEN Append(ts, BatchToTensorUnit) ELSE ts

\* lines 423-458; the result is the list given to Compose
create_list_of_transforms(tl, flag) ==
    LET ts == IF ~tl.is_none /\ tl.entries # <<>> THEN BuildUnits(tl.entries) ELSE <<>>
    IN AppendToTensor(ts, flag)

InitBuilder ==
    \* the configuration argument: None, or a list of entries
    /\ \/ transforms_list = [is_none |-> TRUE, entries |-> <<>>]
       \/ \E n \in 0..MaxConfigLen :
             \E es \in [1..n -> ConfigEntries] :
                transforms_list = [is_none |-> FALSE, entries |-> es]
    /\ ovino_ir \in BOOLEAN
    /\ InitOthers("create_list_of_transforms")

CreateListOfTransforms ==
    /\ call = "create_list_of_transforms" /\ pc = "start"
    /\ transforms' = create_list_of_transforms(transforms_list, ovino_ir)
    /\ pc' = "done"
    /\ UNCHANGED <<call, exc, transforms_list, ovino_ir, collateVars, f2tVars, normVars>>

SpecBuilder == InitBuilder /\ [][CreateListOfTransforms]_vars

---------------------------------------------------------------------------
(* The geometric normalizers *)

\* largest height or width of an image or target handed to BatchResizePad
MaxDim == 3
\* longest list of images handed to BatchResizePad
MaxImgs == 2
\* largest height or width of an image or target handed to BatchCropPad
MaxCrop == 2

COLOR_WHITE == <<255, 255, 255>>
\* pixel values of the images handed to BatchCropPad
PixelValues == {<<0, 0, 0>>, COLOR_WHITE}

\* an argument that is a list, or a single image
AsList(x) == IF x.is_list THEN x.items ELSE <<x.item>>

\* cvRound: the nearest integer to n/d, a tie going to the even one
cvRound(n, d) ==
    LET q == n \div d
        r == n % d
    IN IF 2 * r < d THEN q
       ELSE IF 2 * r > d THEN q + 1
       ELSE IF q % 2 = 0 THEN q ELSE q + 1

Min(a, b) == IF a <= b THEN a ELSE b

CvError == Raise("cv2.error")
AssertionError == Raise("AssertionError")

\* cv.resize(img, None, fx=scale, fy=scale) on the shape of the image, with
\* scale = num/den: the size is (cvRound(w*scale), cvRound(h*scale)), and an
\* empty size raises
Resize(img, num, den) ==
    LET nh == cvRound(img.h * num, den)
        nw == cvRound(img.w * num, den)
    IN IF nh <= 0 \/ nw <= 0 THEN CvError ELSE Ok([h |-> nh, w |-> nw])

\* cv.copyMakeBorder on the shape of the image
BorderShape(img, top, bottom, left, right) ==
    IF top < 0 \/ bottom < 0 \/ left < 0 \/ right < 0 THEN CvError
    ELSE Ok([h |-> img.h + top + bottom, w |-> img.w + left + right])

\* lines 47-54, one turn of the loop: the shape of the image appended to res
ResizePadOne(img, target) ==
    LET target_height == target[1]
        target_width == target[2]
        \* scale = min(target_height / img_h, target_width / img_w)
        byHeight == target_height * img.w <= target_width * img.h
        num == IF byHeight THEN target_height ELSE target_width
        den == IF byHeight THEN img.h ELSE img.w
        resized == Resize(img, num, den)
    IN IF resized.raised THEN resized
       ELSE LET padded == BorderShape(resized.value, 0, target_height - resized.value.h,
                                      0, target_width - resized.value.w)
            IN IF padded.raised THEN padded
               ELSE IF <<padded.value.h, padded.value.w>> # target
                    THEN AssertionError
                    ELSE padded

\* lines 41-56: the loop; the first exception ends the call
RECURSIVE BatchResizePad(_, _)
BatchResizePad(is, target) ==
    IF is = <<>> THEN Ok(<<>>)
    ELSE LET one == ResizePadOne(Head(is), target)
         IN IF one.raised THEN one
            ELSE LET rest == BatchResizePad(Tail(is), target)
                 IN IF rest.raised THEN rest
                    ELSE Ok(<<one.value>> \o rest.value)

ShapeImages == [h : 1..MaxDim, w : 1..MaxDim]

InitResizePad ==
    /\ \/ \E im \in ShapeImages : norm_imgs = [is_list |-> FALSE, item |-> im]
       \/ \E n \in 1..MaxImgs :
             \E is \in [1..n -> ShapeImages] :
                norm_imgs = [is_list |-> TRUE, items |-> is]
    /\ target_shape \in (1..MaxDim) \X (1..MaxDim)
    /\ InitOthers("BatchResizePad")

BatchResizePadCall ==
    /\ call = "BatchResizePad" /\ pc = "start"
    /\ LET r == BatchResizePad(AsList(norm_imgs), target_shape)
       IN IF r.raised
          THEN pc' = "raised" /\ exc' = r.error /\ UNCHANGED res
          ELSE pc' = "done" /\ res' = r.value /\ UNCHANGED exc
    /\ UNCHANGED <<call, norm_imgs, target_shape, collateVars, f2tVars, builderVars>>

SpecResizePad == InitResizePad /\ [][BatchResizePadCall]_vars

\* image_raw[:new_h, :new_w, :]
Crop(img, new_h, new_w) ==
    [h |-> Min(new_h, img.h), w |-> Min(new_w, img.w),
     px |-> [p \in (1..Min(new_h, img.h)) \X (1..Min(new_w, img.w)) |-> img.px[p]]]

\* cv.copyMakeBorder(img, top, bottom, left, right, cv.BORDER_CONSTANT, None, value)
copyMakeBorder(img, top, bottom, left, right, value) ==
    [h |-> img.h + top + bottom, w |-> img.w + left + right,
     px |-> [p \in (1..(img.h + top + bottom)) \X (1..(img.w + left + right)) |->
                IF /\ p[1] - top \in 1..img.h
                   /\ p[2] - left \in 1..img.w
                THEN img.px[<<p[1] - top, p[2] - left>>]
                ELSE value]]

\* Mutant: the crop keeps the bottom-right corner instead of the top-left.
CropPadOne_bottomright(img, target) ==
    LET new_w == Min(target[2], img.w)
        new_h == Min(target[1], img.h)
        cropped == [h |-> new_h, w |-> new_w,
                    px |-> [p \in (1..new_h) \X (1..new_w) |->
                               img.px[<<p[1] + img.h - new_h, p[2] + img.w - new_w>>]]]
    IN copyMakeBorder(cropped, 0, target[1] - new_h, 0, target[2] - new_w, COLOR_WHITE)

\* lines 76-84, one turn of the loop: the image appended to res
CropPadOne(img, target) ==
    LET target_height == target[1]
        target_width == target[2]
        new_w == Min(target_width, img.w)
        new_h == Min(target_height, img.h)
        cropped == Crop(img, new_h, new_w)
    IN copyMakeBorder(cropped, 0, target_height - cropped.h,
                      0, target_width - cropped.w, COLOR_WHITE)

\* lines 70-85
BatchCropPad(is, target) == [i \in 1..Len(is) |-> CropPadOne(is[i], target)]

PixelImage(ih, iw, px) == [h |-> ih, w |-> iw, px |-> px]

InitCropPad ==
    /\ \E ih \in 1..MaxCrop, iw \in 1..MaxCrop :
          \E px \in [(1..ih) \X (1..iw) -> PixelValues] :
             \/ norm_imgs = [is_list |-> FALSE, item |-> PixelImage(ih, iw, px)]
             \/ norm_imgs = [is_list |-> TRUE, items |-> <<PixelImage(ih, iw, px)>>]
    /\ target_shape \in (1..MaxCrop) \X (1..MaxCrop)
    /\ InitOthers("BatchCropPad")

BatchCropPadCall ==
    /\ call = "BatchCropPad" /\ pc = "start"
    /\ res' = BatchCropPad(AsList(norm_imgs), target_shape)
    /\ pc' = "done"
    /\ UNCHANGED <<call, exc, norm_imgs, target_shape, collateVars, f2tVars, builderVars>>

SpecCropPad == InitCropPad /\ [][BatchCropPadCall]_vars

---------------------------------------------------------------------------
(* The units of a chain, applied to the images of a batch *)

TypeError == Raise("TypeError")
ValueError == Raise("ValueError")
RuntimeError == Raise("RuntimeError")

\* the shape with its height and width replaced
WithHW(shape, h, w) == <<h, w>> \o SubSeq(shape, 3, Len(shape))

\* the images of the list with their heights and widths replaced by hw[i]
SetHW(is, hw) ==
    [i \in 1..Len(is) |-> [is[i] EXCEPT !.shape = WithHW(@, hw[i][1], hw[i][2])]]

\* BatchResizePad.__call__ (41-56) on the images of a batch
ResizePadUnit(args, is) ==
    LET r == BatchResizePad([i \in 1..Len(is) |->
                                [h |-> is[i].shape[1], w |-> is[i].shape[2]]],
                            args.target_shape)
    IN IF r.raised THEN r
       ELSE Ok(SetHW(is, [i \in 1..Len(is) |-> <<r.value[i].h, r.value[i].w>>]))

\* BatchCropPad.__call__ (70-85): the slice [:new_h, :new_w, :] needs three
\* axes; the border fills up to the target
CropPadUnit(args, is) ==
    IF \E i \in 1..Len(is) : Len(is[i].shape) # 3 THEN IndexError
    ELSE Ok(SetHW(is, [i \in 1..Len(is) |->
                         LET new_h == Min(args.target_shape[1], is[i].shape[1])
                             new_w == Min(args.target_shape[2], is[i].shape[2])
                         IN <<new_h + (args.target_shape[1] - new_h),
                              new_w + (args.target_shape[2] - new_w)>>]))

\* lines 103-118: np.random.randint(0, pad) for a positive bound; a side whose
\* bound is not positive stays None, which cv.copyMakeBorder, where it takes
\* it, reads as no border
PadDraws(pad) == IF pad > 0 THEN 0..(pad - 1) ELSE {0}

\* BatchTransformPad.__call__ (102-124): one draw per side, shared by the
\* images.  cv.copyMakeBorder is called once per image, so not at all on an
\* empty list; given None for a side it raises a TypeError or pads nothing on
\* that side, by the version of the binding.
PadUnit(args, is) ==
    LET pad_l == args.pads[1]
        pad_r == args.pads[2]
        pad_b == args.pads[3]
        pad_t == args.pads[4]
        padded == {Ok(SetHW(is, [i \in 1..Len(is) |->
                                   <<is[i].shape[1] + tb[1] + tb[2],
                                     is[i].shape[2] + lr[1] + lr[2]>>])) :
                      lr \in PadDraws(pad_l) \X PadDraws(pad_r),
                      tb \in PadDraws(pad_t) \X PadDraws(pad_b)}
    IN IF is # <<>> /\ (pad_l <= 0 \/ pad_r <= 0 \/ pad_b <= 0 \/ pad_t <= 0)
       THEN {TypeError} \cup padded
       ELSE padded

\* BatchTransformShift.__call__ (158-166): np.random.randint(0, bound) needs a
\* positive bound; the canvas keeps its size
ShiftUnit(args, is) ==
    IF args.shifts[1] <= 0 \/ args.shifts[2] <= 0 THEN {ValueError} ELSE {Ok(is)}

\* the draws of np.random.uniform(lo/2, hi/2), in sixteenths: every draw
\* rounds the sides of an image of height and width up to 2 as one of these
\* does (the roundings change at multiples of 1/4)
UniformDraws(lo, hi) ==
    IF lo = hi THEN {8 * lo}
    ELSE IF lo < hi THEN (8 * lo)..(8 * hi - 1) ELSE (8 * hi + 1)..(8 * lo)

\* BatchTransformRescale.__call__ (343-349): one factor fx = q/16 for the
\* batch; cv.resize(img, dsize=None, fx=fx, fy=fx)
RescaleUnit(args, is) ==
    {IF q <= 0 /\ is # <<>> THEN CvError
     ELSE LET r == [i \in 1..Len(is) |->
                       Resize([h |-> is[i].shape[1], w |-> is[i].shape[2]], q, 16)]
          IN IF \E i \in 1..Len(is) : r[i].raised THEN CvError
             ELSE Ok(SetHW(is, [i \in 1..Len(is) |-> <<r[i].value.h, r[i].value.w>>])) :
        q \in UniformDraws(args.scales[1], args.scales[2])}

\* BatchTransformRotate.__call__ (359-381): every image is warped onto the
\* bounding box of the rotated corners (0,0), (w,0), (0,h), (w,h) of the first
\* image.  With the angle bound 0 the corners stay and the box is (h+1, w+1);
\* for another bound the box is some size within the rotated diagonal.
\* imgs[0] raises on an empty list.
RotateUnit(args, is) ==
    IF is = <<>> THEN {IndexError}
    ELSE LET h == is[1].shape[1]
             w == is[1].shape[2]
             Boxes == IF args.angle = 0 THEN {<<h + 1, w + 1>>}
                      ELSE (1..(h + w + 1)) \X (1..(h + w + 1))
         IN {Ok(SetHW(is, [i \in 1..Len(is) |-> bb])) : bb \in Boxes}

\* BatchTransfromAdaptiveBin.__call__ (326-332): cv.cvtColor(BGR2GRAY) takes a
\* 3- or 4-channel image and returns one plane; cv.adaptiveThreshold needs an
\* odd block size above 1; neither is called on an empty list
AdaptiveBinUnit(args, is) ==
    IF \E i \in 1..Len(is) : Len(is[i].shape) # 3 \/ is[i].shape[3] \notin {3, 4}
    THEN CvError
    ELSE IF is # <<>> /\ (args.block_size % 2 # 1 \/ args.block_size <= 1) THEN CvError
    ELSE Ok([i \in 1..Len(is) |-> [is[i] EXCEPT !.shape = <<@[1], @[2]>>]])

\* TransformResize.__call__ (201-205): cv.resize(im, target_shape[::-1]), once
\* per image
TransformResizeUnit(args, is) ==
    IF is # <<>> /\ (args.target_shape[1] <= 0 \/ args.target_shape[2] <= 0) THEN CvError
    ELSE Ok(SetHW(is, [i \in 1..Len(is) |-> args.target_shape]))

\* BatchToTensor.__call__ (127-131): ToTensor turns an H x W x C (or H x W)
\* array into a C x H x W tensor, and takes nothing that is not an array
ToTensorUnit(is) ==
    IF \E i \in 1..Len(is) : is[i].kind # "ndarray" THEN TypeError
    ELSE Ok([i \in 1..Len(is) |->
               [is[i] EXCEPT !.kind = "tensor",
                             !.shape = IF Len(@) = 2 THEN <<1, @[1], @[2]>>
                                       ELSE <<@[3], @[1], @[2]>>]])

\* BatchTransformRandomNoise.__call__ (178-191): for every image,
\* gauss += noise * intensity adds into an 8-bit array in place.  numpy does
\* that for an integer that fits 8 bits and refuses a float (TypeError).  A
\* larger integer widens the product, which is cast back, or is refused
\* (OverflowError), by the version of numpy; a negative integer is refused
\* with a TypeError or an OverflowError, by the version.
NoiseUnit(args, is) ==
    IF is = <<>> THEN {Ok(is)}
    ELSE IF args.intensivity.dtype = "float" THEN {TypeError}
    ELSE IF args.intensivity.value \in 0..255 THEN {Ok(is)}
    ELSE IF args.intensivity.value > 255 THEN {Ok(is), Raise("OverflowError")}
    ELSE {TypeError, Raise("OverflowError")}

\* the units that filter the pixels and keep the shape: BatchTransformBin,
\* BatchTransformBlur, TransformDilation, TransformErosion,
\* TransformRandomBolding
ShapeKeepingUnits ==
    {"BatchTransformBin", "BatchTransformBlur",
     "TransformDilation", "TransformErosion", "TransformRandomBolding"}

\* unit(imgs): the results the call can have
UnitOutcomes(u, is) ==
    CASE u.cls = "BatchResizePad" -> {ResizePadUnit(u.args, is)}
      [] u.cls = "BatchCropPad" -> {CropPadUnit(u.args, is)}
      [] u.cls = "BatchTransformPad" -> PadUnit(u.args, is)
      [] u.cls = "BatchTransformShift" -> ShiftUnit(u.args, is)
      [] u.cls = "BatchTransformRescale" -> RescaleUnit(u.args, is)
      [] u.cls = "BatchTransformRotate" -> RotateUnit(u.args, is)
      [] u.cls = "BatchTransfromAdaptiveBin" -> {AdaptiveBinUnit(u.args, is)}
      [] u.cls = "TransformResize" -> {TransformResizeUnit(u.args, is)}
      [] u.cls = "BatchToTensor" -> {ToTensorUnit(is)}
      [] u.cls = "BatchTransformRandomNoise" -> NoiseUnit(u.args, is)
      [] u.cls \in ShapeKeepingUnits -> {Ok(is)}

\* Compose.__call__: the units in order, each on the result of the one before;
\* the first exception ends the chain
RECURSIVE ChainOutcomes(_, _)
ChainOutcomes(units, is) ==
    IF units = <<>> THEN {Ok(is)}
    ELSE UNION {IF o.raised THEN {o} ELSE ChainOutcomes(Tail(units), o.value) :
                   o \in UnitOutcomes(Head(units), is)}

\* Mutant: the chain hands the images back in reverse order.
ApplyTransform_reversed(bt, is) ==
    IF bt.is_none THEN {Ok(is)}
    ELSE {IF o.raised THEN o
          ELSE Ok([i \in 1..Len(o.value) |-> o.value[Len(o.value) + 1 - i]]) :
             o \in ChainOutcomes(bt.units, is)}

\* lines 410-411: the chain, when one is passed
ApplyTransform(bt, is) ==
    IF bt.is_none THEN {Ok(is)} ELSE ChainOutcomes(bt.units, is)

\* line 412, torch.stack(imgs, dim=0): the images as rows of one tensor; it
\* takes tensors only, at least one, all of one shape
Stack(is) ==
    IF \E i \in 1..Len(is) : is[i].kind # "tensor" THEN TypeError
    ELSE IF is = <<>> \/ \E i, j \in 1..Len(is) : is[i].shape # is[j].shape
         THEN RuntimeError
         ELSE Ok(is)

---------------------------------------------------------------------------
(* collate_fn *)

\* the chains create_list_of_transforms builds from at most one entry
Chains ==
    {[is_none |-> FALSE,
      units |-> create_list_of_transforms([is_none |-> FALSE, entries |-> es], flag)] :
        es \in {<<>>} \cup {<<e>> : e \in ConfigEntries}, flag \in BOOLEAN}

Init ==
    /\ \E n \in 0..MaxBatch :
          \E sh \in [1..n -> Shapes], fs \in [1..n -> RecordFormulas] :
             batch = [k \in 1..n |-> Record(k, sh[k], fs[k])]
    /\ batch_transform \in {[is_none |-> TRUE, units |-> <<>>]} \cup Chains
    /\ InitOthers("collate_fn")

\* the call ends with exception e; the outputs stay unset
CollateRaises(e) ==
    /\ pc' = "raised"
    /\ exc' = e
    /\ UNCHANGED <<img_names, imgs, tgt4training, tgt4cal_loss>>

\* collate_fn(sign2id, batch, batch_transform=...), lines 396-420
CollateFn ==
    /\ call = "collate_fn" /\ pc = "start"
    /\ UNCHANGED <<call, batch, batch_transform, f2tVars, builderVars, normVars>>
    /\ IF batch = <<>>
       THEN \* batch[0] raises
            /\ CollateRaises("IndexError")
            /\ UNCHANGED <<batch_f, batch_s, formulas_tensor>>
       ELSE LET bf == FilterShape(batch)
                bs == SortBatch(bf)
                is == [i \in 1..Len(bs) |-> bs[i].img]
                fs == [i \in 1..Len(bs) |-> bs[i].formula]
                ft == formulas2tensor(fs, sign2id)
            IN /\ batch_f' = bf
               /\ batch_s' = bs
               /\ IF ft.raised
                  THEN CollateRaises(ft.error) /\ UNCHANGED formulas_tensor
                  ELSE /\ formulas_tensor' = ft.value
                       /\ \E tr \in ApplyTransform(batch_transform, is) :
                             LET st == IF tr.raised THEN tr ELSE Stack(tr.value)
                             IN IF st.raised
                                THEN CollateRaises(st.error)
                                ELSE /\ pc' = "done"
                                     /\ exc' = exc
                                     /\ img_names' = ImgNames(bs)
                                     /\ imgs' = st.value
                                     /\ tgt4training' = Tgt4Training(ft.value)
                                     /\ tgt4cal_loss' = Tgt4CalLoss(ft.value)

Next == CollateFn

Spec == Init /\ [][Next]_vars

---------------------------------------------------------------------------
(* Properties *)

\* the number of whitespace-separated tokens of a string, counted by the
\* positions where a token starts
TokenCount(s) ==
    Cardinality({i \in 1..Len(s) : s[i] # " " /\ (i = 1 \/ s[i - 1] = " ")})

\* the row of width w a formula is tokenized to: ids, then PAD
ExpectedRow(f, w) ==
    [j \in 1..w |->
        IF j <= TokenCount(f) THEN Get(sign2id, Split(f)[j], UNK_TOKEN) ELSE PAD_TOKEN]

\* the positions of the raw batch whose image shape is the first record's
Survivors == {k \in 1..Len(batch) : batch[k].img.shape = batch[1].img.shape}

MaxOf(S) == CHOOSE m \in S : \A x \in S : x <= m

\* collate_fn has run on a non-empty batch
CollateRan == call = "collate_fn" /\ pc # "start" /\ batch # <<>>
\* collate_fn has returned its four outputs
CollateDone == call = "collate_fn" /\ pc = "done"
\* the chain create_list_of_transforms builds when no list is configured
DefaultChain == [is_none |-> FALSE, units |-> <<BatchToTensorUnit>>]

\* C1: for every non-empty raw batch, whatever chain is applied, the four
\* outputs collate_fn returns have one row per surviving record, and row i of
\* each (name, image, train target, loss target) derives from the same
\* surviving input record; the image rows are tensors of one shape.
C1_OutputsAligned ==
    CollateDone =>
        /\ batch # <<>>
        /\ Len(img_names) = Cardinality(Survivors)
        /\ Len(imgs) = Cardinality(Survivors)
        /\ Len(tgt4training) = Cardinality(Survivors)
        /\ Len(tgt4cal_loss) = Cardinality(Survivors)
        /\ \A i \in 1..Len(img_names) :
              \E k \in Survivors :
                 LET w == Len(tgt4training[i]) - 1
                 IN /\ img_names[i] = batch[k].img_name
                    /\ imgs[i].data = batch[k].img.data
                    /\ imgs[i].kind = "tensor"
                    /\ imgs[i].shape = imgs[1].shape
                    /\ TokenCount(batch[k].formula) <= w
                    /\ tgt4training[i] = <<START_TOKEN>> \o ExpectedRow(batch[k].formula, w)
                    /\ tgt4cal_loss[i] = ExpectedRow(batch[k].formula, w) \o <<END_TOKEN>>
        /\ \A i, j \in 1..Len(img_names) : i # j => img_names[i] # img_names[j]

\* a returned call whose sort moved the second record in front of the first
\* and whose chain changed the height and width of the images
C1_Witness ==
    /\ CollateDone
    /\ Len(img_names) = 2
    /\ img_names[1] = 2
    /\ imgs[1].data = 2
    /\ batch[1].formula # batch[2].formula
    /\ <<imgs[1].shape[2], imgs[1].shape[3]>> #
          <<batch[2].img.shape[1], batch[2].img.shape[2]>>

\* the records of the raw batch at the positions in S, in batch order
RECURSIVE Pick(_, _)
Pick(b, S) ==
    IF b = <<>> THEN <<>>
    ELSE Pick(SubSeq(b, 1, Len(b) - 1), S)
            \o (IF Len(b) \in S THEN <<b[Len(b)]>> ELSE <<>>)

\* C2: for every non-empty raw batch the filter of collate_fn keeps exactly
\* the records whose raw image shape equals the first record's and drops the
\* others; dropping raises nothing (with the default chain the call returns
\* whatever was dropped); a call that returns has (original count - dropped
\* count) rows.
C2_FilterKeepsFirstShape ==
    /\ CollateRan =>
          /\ batch_f = Pick(batch, Survivors)
          /\ \A i \in 1..Len(batch_f) : batch_f[i].img.shape = batch[1].img.shape
          /\ batch_transform = DefaultChain => pc = "done"
    /\ CollateDone =>
          /\ {img_names[i] : i \in 1..Len(img_names)} = {batch[k].img_name : k \in Survivors}
          /\ Len(img_names) =
                Len(batch) - Cardinality({k \in 1..Len(batch) :
                                             batch[k].img.shape # batch[1].img.shape})
          /\ Len(imgs) = Len(img_names)
          /\ Len(tgt4training) = Len(img_names)
          /\ Len(tgt4cal_loss) = Len(img_names)

\* a returned call that dropped a record
C2_Witness ==
    /\ CollateDone
    /\ Len(batch) >= 2
    /\ Len(batch_f) < Len(batch)
    /\ Len(img_names) = Len(batch_f)

\* C3: the sorted records, and the output rows of a call that returns, are
\* ordered by the token count of their formula, descending, and those with
\* equal token counts keep the order their records had in the input batch
\* (the name of the k-th input record is k).
C3_SortedDescendingStable ==
    /\ CollateRan =>
          \A i, j \in 1..Len(batch_s) :
              i < j =>
                 LET ci == TokenCount(batch_s[i].formula)
                     cj == TokenCount(batch_s[j].formula)
                 IN /\ ci >= cj
                    /\ ci = cj => batch_s[i].img_name < batch_s[j].img_name
    /\ CollateDone =>
          \A i, j \in 1..Len(img_names) :
              i < j =>
                 LET ci == TokenCount(batch[img_names[i]].formula)
                     cj == TokenCount(batch[img_names[j]].formula)
                 IN /\ ci >= cj
                    /\ ci = cj => img_names[i] < img_names[j]

\* a returned call with two surviving records of equal token count and
\* different formulas
C3_Witness ==
    /\ CollateDone
    /\ Len(img_names) = 2
    /\ batch[1].formula # batch[2].formula
    /\ TokenCount(batch[1].formula) = TokenCount(batch[2].formula)

\* the last entry of a row that is not PAD (0 when there is none)
LastNonPad(row) ==
    LET idx == {j \in 1..Len(row) : row[j] # PAD_TOKEN}
    IN IF idx = {} THEN 0 ELSE MaxOf(idx)

\* C4: in every call of collate_fn that returns, train_targets is the
\* tokenized matrix with a START column in front and loss_targets is the
\* tokenized matrix with an END column behind; both are (batch, max_len+1);
\* column 0 of train_targets is START and the last non-pad column of every
\* row of loss_targets is END.
C4_ShiftedTargets ==
    CollateDone =>
        LET max_len == MaxOf({TokenCount(batch[k].formula) : k \in Survivors})
        IN /\ Len(tgt4training) = Len(formulas_tensor)
           /\ Len(tgt4cal_loss) = Len(formulas_tensor)
           /\ \A i \in 1..Len(formulas_tensor) :
                 /\ Len(formulas_tensor[i]) = max_len
                 /\ Len(tgt4training[i]) = max_len + 1
                 /\ Len(tgt4cal_loss[i]) = max_len + 1
                 /\ tgt4training[i][1] = START_TOKEN
                 /\ SubSeq(tgt4training[i], 2, max_len + 1) = formulas_tensor[i]
                 /\ SubSeq(tgt4cal_loss[i], 1, max_len) = formulas_tensor[i]
                 /\ LastNonPad(tgt4cal_loss[i]) > 0
                 /\ tgt4cal_loss[i][LastNonPad(tgt4cal_loss[i])] = END_TOKEN

\* a returned call with a row shorter than the matrix (a PAD cell lies
\* before the END column) below a row that fills it
C4_Witness ==
    /\ CollateDone
    /\ Len(tgt4cal_loss) = 2
    /\ Len(tgt4cal_loss[2]) >= 2
    /\ tgt4cal_loss[1][Len(tgt4cal_loss[1]) - 1] # PAD_TOKEN
    /\ tgt4cal_loss[2][Len(tgt4cal_loss[2]) - 1] = PAD_TOKEN

F2TRan == call = "formulas2tensor" /\ pc # "start" /\ formulas # <<>>

\* the matrix C5 describes: one row per formula, as wide as the first formula
\* has tokens, ids (UNK for unknown tokens) in the cells of tokens, PAD elsewhere
F2TMatrixAsClaimed ==
    /\ pc = "done"
    /\ Len(tensors) = Len(formulas)
    /\ \A i \in 1..Len(formulas) :
          /\ Len(tensors[i]) = TokenCount(formulas[1])
          /\ \A j \in 1..TokenCount(formulas[i]) :
                /\ j \in DOMAIN tensors[i]
                /\ tensors[i][j] = Get(sign2id, Split(formulas[i])[j], UNK_TOKEN)
          /\ \A j \in DOMAIN tensors[i] :
                j > TokenCount(formulas[i]) => tensors[i][j] = PAD_TOKEN

\* C5 as stated: for every non-empty list of formula strings formulas2tensor
\* returns the matrix, whatever the lengths of the other formulas.
C5_Original == F2TRan => F2TMatrixAsClaimed

\* C5 amended: for every non-empty list in which no formula has more tokens
\* than the first, formulas2tensor returns the matrix; when some formula has
\* more tokens than the first, the call raises and returns nothing.
C5_MatrixOrRaise ==
    F2TRan =>
        IF \A i \in 1..Len(formulas) : TokenCount(formulas[i]) <= TokenCount(formulas[1])
        THEN F2TMatrixAsClaimed
        ELSE pc = "raised"

\* a returned matrix with a row shorter than the first that holds an UNK id
C5_Witness ==
    /\ call = "formulas2tensor" /\ pc = "done"
    /\ \E i \in 1..Len(formulas) :
          /\ TokenCount(formulas[i]) < TokenCount(formulas[1])
          /\ TokenCount(formulas[i]) >= 1
          /\ tensors[i][1] = UNK_TOKEN
          /\ tensors[i][Len(tensors[i])] = PAD_TOKEN

\* the transform identifiers of the configuration format
RecognisedNames ==
    {"BatchResizePad", "BatchCropPad", "BatchTransformBin", "BatchTransformBlur",
     "BatchTransformPad", "BatchTransformRandomNoise", "BatchTransformRescale",
     "BatchTransformRotate", "BatchTransfromAdaptiveBin", "TransformDilation",
     "TransformErosion", "TransformResize", "BatchTransformShift",
     "TransformRandomBolding"}

BuilderDone == call = "create_list_of_transforms" /\ pc = "done"

\* C6: the chain holds one unit per entry with a recognised name, in
\* configuration order; entries with another name add nothing and raise
\* nothing; BatchToTensor is the last unit exactly when the skip flag is not
\* set and is absent when it is set.
C6_ChainFollowsConfig ==
    /\ call = "create_list_of_transforms" => pc \in {"start", "done"}
    /\ BuilderDone =>
          LET rec == SelectSeq(transforms_list.entries,
                               LAMBDA e : e.name \in RecognisedNames)
              body == IF ovino_ir THEN transforms
                      ELSE SubSeq(transforms, 1, Len(transforms) - 1)
          IN /\ Len(body) = Len(rec)
             /\ \A i \in 1..Len(rec) : body[i].cls = rec[i].name
             /\ \A i \in 1..Len(body) : body[i].cls # "BatchToTensor"
             /\ ~ovino_ir =>
                   /\ Len(transforms) >= 1
                   /\ transforms[Len(transforms)].cls = "BatchToTensor"

\* a chain built from a list with an unknown and a recognised name, with the
\* materializer at its end
C6_Witness ==
    /\ BuilderDone
    /\ ~ovino_ir
    /\ Len(transforms_list.entries) = 2
    /\ transforms_list.entries[1].name \notin RecognisedNames
    /\ transforms_list.entries[2].name \in RecognisedNames
    /\ Len(transforms) = 2

\* C7: for all images and target shapes BatchResizePad returns images of
\* exactly the target shape, the assertion never fails and no step raises.
C7_ResizePadAlwaysTargetShape ==
    (call = "BatchResizePad" /\ pc # "start") =>
        /\ pc = "done"
        /\ Len(res) = Len(AsList(norm_imgs))
        /\ \A i \in 1..Len(res) : <<res[i].h, res[i].w>> = target_shape

CropPadDone == call = "BatchCropPad" /\ pc = "done"

\* C8: every BatchCropPad output has exactly the target height and width;
\* the pixels of rows [0, min(H,TH)) and columns [0, min(W,TW)) are the source
\* pixels at the same position and every other pixel is the background colour.
C8_CropPadExact ==
    /\ call = "BatchCropPad" => pc \in {"start", "done"}
    /\ CropPadDone =>
          /\ Len(res) = Len(AsList(norm_imgs))
          /\ \A i \in 1..Len(res) :
                LET src == AsList(norm_imgs)[i]
                IN /\ res[i].h = target_shape[1]
                   /\ res[i].w = target_shape[2]
                   /\ DOMAIN res[i].px = (1..target_shape[1]) \X (1..target_shape[2])
                   /\ \A p \in DOMAIN res[i].px :
                         IF p[1] <= Min(src.h, target_shape[1]) /\ p[2] <= Min(src.w, target_shape[2])
                         THEN res[i].px[p] = src.px[p]
                         ELSE res[i].px[p] = COLOR_WHITE

\* an image cropped on one axis and padded on the other, with a non-white
\* pixel kept and a non-white pixel cut off
C8_Witness ==
    /\ CropPadDone
    /\ LET src == AsList(norm_imgs)[1]
       IN /\ src.h > target_shape[1]
          /\ src.w < target_shape[2]
          /\ src.px[<<1, 1>>] # COLOR_WHITE
          /\ src.px[<<src.h, 1>>] # COLOR_WHITE

\* a batch in which no other record has the first record's shape
Heterogeneous == Len(batch) >= 2 /\ Survivors = {1}

\* C9 as stated, on the batches that could bear it out: the shape filter
\* prunes a heterogeneous raw batch down to an empty batch.
C9_Original == (CollateRan /\ Heterogeneous) => batch_f = <<>>

\* C9 amended: the shape filter never leaves an empty batch: the first record
\* always survives; a heterogeneous batch is pruned, silently (with the
\* default chain the call returns), down to as little as that one record.
C9_FirstRecordSurvives ==
    /\ CollateRan =>
          /\ Len(batch_f) >= 1
          /\ batch_f[1] = batch[1]
          /\ Heterogeneous => batch_f = <<batch[1]>>
          /\ (Heterogeneous /\ batch_transform = DefaultChain) => pc = "done"
    /\ CollateDone =>
          /\ Len(img_names) >= 1
          /\ Heterogeneous => img_names = <<batch[1].img_name>>

\* a heterogeneous batch pruned to its first record, in a call that returned
C9_Witness ==
    /\ CollateDone
    /\ Heterogeneous
    /\ Len(batch_f) = 1
    /\ Len(img_names) = 1
    /\ Len(imgs) = 1

\* C10: in every call on a non-empty batch the first formula handed to
\* formulas2tensor has the maximum token count, so the matrix is as wide as
\* the longest surviving formula, every token of every formula is in it and
\* no write falls outside it (the call does not end with an IndexError).
C10_WidthIsMaxTokenCount ==
    CollateRan =>
        LET max_len == MaxOf({TokenCount(batch[k].formula) : k \in Survivors})
        IN /\ exc # "IndexError"
           /\ TokenCount(batch_s[1].formula) = max_len
           /\ Len(formulas_tensor) = Len(batch_s)
           /\ \A i \in 1..Len(batch_s) :
                 /\ Len(formulas_tensor[i]) = max_len
                 /\ \A j \in 1..TokenCount(batch_s[i].formula) :
                       /\ j \in DOMAIN formulas_tensor[i]
                       /\ formulas_tensor[i][j] =
                             Get(sign2id, Split(batch_s[i].formula)[j], UNK_TOKEN)

\* a call whose first input record is not the longest one
C10_Witness ==
    /\ CollateRan
    /\ Len(batch_s) = 2
    /\ TokenCount(batch[1].formula) < TokenCount(batch[2].formula)
    /\ Len(formulas_tensor[1]) = TokenCount(batch[2].formula)

=============================================================================
